---- MODULE Spec2Model ----
(***************************************************************************)
(* Model of notatki_app.py: a Streamlit script that records a voice note,  *)
(* transcribes it, stores it in the Qdrant collection "notes" together     *)
(* with an OpenAI embedding, and lists or searches the stored notes.       *)
(*                                                                         *)
(* Every browser session runs the script top to bottom once per user       *)
(* interaction (a "script run").  The Qdrant collection is shared by all   *)
(* sessions; st.session_state is private to a session.  A script run is    *)
(* split into one action per call to a remote service (Qdrant, OpenAI),    *)
(* so that runs of two sessions interleave at those calls; the code in     *)
(* between only touches the session's own state and is folded into the     *)
(* action that ends with the next remote call.                             *)
(***************************************************************************)
EXTENDS Integers, Sequences, FiniteSets, TLC

\* ------------------------------------------------------------------ bounds

\* Largest number of points the collection is let grow to under Spec.
MaxNotes == 3
\* The same under SpecBulk, which has to pass the listing limit of 10.
MaxBulkNotes == 11
\* The same under SpecRace (two sessions).
MaxRaceNotes == 2

\* ------------------------------------------------------- program constants

EMBEDDING_DIM == 3072
QDRANT_COLLECTION_NAME == "notes"
\* limit=10 of qdrant_client.scroll and qdrant_client.search
LIST_LIMIT == 10

\* ----------------------------------------------------------------- values

Sessions == {1, 2}

\* Python's None, and a key that is not in st.session_state.
None == "None"
Unset == "unset"

\* What the recorder widget returns: no recording, or one of two recordings.
NoAudio == "no_audio"
Audios == {"rec1", "rec2"}

\* Texts a transcript, the text area or the query field can hold.
Texts == {"", " ", "a", "b"}

\* The button whose click caused this script run (st.button is True only in
\* the run its click triggers; any other interaction clicks none).
Clicks == {"none", "transcribe", "save", "search"}

\* Python truthiness of a str-or-None value: `if x:` / `if not x:`.
Truthy(x) == x \notin {"", None, Unset}

\* str.strip() == "": what the specification calls blank text.
Blank(x) == x \in {"", " "}

\* AudioSegment.export(..., format="mp3").getvalue(): the bytes of a recording.
Export(audio) == IF audio = "rec1" THEN "mp3_1" ELSE "mp3_2"

\* hashlib.md5(bytes).hexdigest()
Md5Hex(bytes) == IF bytes = "mp3_1" THEN "d1" ELSE "d2"

\* ------------------------------------------------------------- embeddings

\* A vector never assigned (the local is not bound yet).
NoVector == [size |-> 0, dir |-> <<0, 0>>]

\* The embedding service: a unit vector per text, of EMBEDDING_DIM components
\* (represented by its direction in a plane and its size).
Direction(text) ==
    CASE text = "a" -> <<1, 0>>
      [] text = "b" -> <<0, 1>>
      [] text = " " -> <<-1, 0>>
      [] OTHER      -> <<0, -1>>

EmbeddingsCreate(text) == [size |-> EMBEDDING_DIM, dir |-> Direction(text)]

\* Distance.COSINE between two unit vectors: their dot product, in -1..1.
Cosine(u, v) == u.dir[1] * v.dir[1] + u.dir[2] * v.dir[2]

\* ------------------------------------------------------------------ state

VARIABLES
    collections,           \* Qdrant: collection name -> VectorParams
    points,                \* Qdrant: point id -> [vector, payload] of "notes"
    env_openai_key,        \* env["OPENAI_API_KEY"], "" when the key is absent
    openai_api_key,        \* st.session_state["openai_api_key"], per session
    note_audio_bytes_md5,  \* st.session_state["note_audio_bytes_md5"]
    note_audio_bytes,      \* st.session_state["note_audio_bytes"]
    note_audio_text,       \* st.session_state["note_audio_text"]
    note_text,             \* st.session_state["note_text"]
    pc,                    \* where the session's script run stands
    clicked,               \* the button clicked for this run
    points_count,          \* add_note_to_db: points_count.count
    embedding,             \* the value get_embedding returned
    embed_calls,           \* calls of get_embedding in this run
    query,                 \* list_notes_from_db: query
    result,                \* list_notes_from_db: result
    error                  \* the exception that ended the run, or "none"

store == <<collections, points>>
session_state == <<openai_api_key, note_audio_bytes_md5, note_audio_bytes,
                   note_audio_text, note_text>>
locals == <<clicked, points_count, embedding, embed_calls, query, result>>
vars == <<collections, points, env_openai_key, openai_api_key,
          note_audio_bytes_md5, note_audio_bytes, note_audio_text, note_text,
          pc, clicked, points_count, embedding, embed_calls, query, result,
          error>>

\* ------------------------------------------------------------ store model

\* qdrant_client.collection_exists(name)
CollectionExists(name) == name \in DOMAIN collections

\* Mutant of Count: a count that lags one point behind (exact=False).
CountInexact ==
    IF Cardinality(DOMAIN points) > 1
      THEN Cardinality(DOMAIN points) - 1 ELSE Cardinality(DOMAIN points)

\* qdrant_client.count(collection_name, exact=True).count
Count == Cardinality(DOMAIN points)

\* PointStruct(id=points_count.count + 1, ...): the id of the new point.
PointId(count) == count + 1

\* Mutant of Upsert: an insert that leaves an existing point alone.
UpsertInsertOnly(pts, id, vector, payload) ==
    [i \in DOMAIN pts \cup {id} |->
        IF i \in DOMAIN pts THEN pts[i]
        ELSE [vector |-> vector, payload |-> payload]]

\* qdrant_client.upsert: insert the point, or replace the one with its id.
Upsert(pts, id, vector, payload) ==
    [i \in DOMAIN pts \cup {id} |->
        IF i = id THEN [vector |-> vector, payload |-> payload] ELSE pts[i]]

Min(S) == CHOOSE x \in S : \A y \in S : x <= y

\* The ids of a scroll page: Qdrant scrolls in ascending id order.
RECURSIVE ScrollIds(_, _)
ScrollIds(ids, limit) ==
    IF ids = {} \/ limit = 0 THEN <<>>
    ELSE <<Min(ids)>> \o ScrollIds(ids \ {Min(ids)}, limit - 1)

\* Mutant of Scroll: a scroll that ignores its limit.
ScrollUnlimited(limit) ==
    LET ids == ScrollIds(DOMAIN points, Cardinality(DOMAIN points))
    IN  [k \in 1..Len(ids) |-> [id |-> ids[k], payload |-> points[ids[k]].payload]]

\* qdrant_client.scroll(collection_name, limit)[0]: the records of the page.
Scroll(limit) ==
    LET ids == ScrollIds(DOMAIN points, limit)
    IN  [k \in 1..Len(ids) |-> [id |-> ids[k], payload |-> points[ids[k]].payload]]

\* The id of the best remaining hit: highest score, lowest id among equals.
Best(ids, qv) ==
    CHOOSE i \in ids : \A j \in ids :
        \/ Cosine(qv, points[i].vector) > Cosine(qv, points[j].vector)
        \/ /\ Cosine(qv, points[i].vector) = Cosine(qv, points[j].vector)
           /\ i <= j

RECURSIVE SearchIds(_, _, _)
SearchIds(ids, qv, limit) ==
    IF ids = {} \/ limit = 0 THEN <<>>
    ELSE <<Best(ids, qv)>> \o SearchIds(ids \ {Best(ids, qv)}, qv, limit - 1)

\* qdrant_client.search(collection_name, query_vector, limit): scored points,
\* best first.
Search(qv, limit) ==
    LET ids == SearchIds(DOMAIN points, qv, limit)
    IN  [k \in 1..Len(ids) |->
            [id |-> ids[k], payload |-> points[ids[k]].payload,
             score |-> Cosine(qv, points[ids[k]].vector)]]

\* note.payload["text"] if note.payload and "text" in note.payload else ""
PayloadText(note) ==
    IF "text" \in DOMAIN note.payload THEN note.payload.text ELSE ""

\* The result list of list_notes_from_db without a query; score None is <<>>.
ListAllResult(notes) ==
    [k \in 1..Len(notes) |-> [text |-> PayloadText(notes[k]), score |-> <<>>]]

\* The result list of list_notes_from_db with a query; a score s is <<s>>.
SearchResult(notes) ==
    [k \in 1..Len(notes) |->
        [text |-> PayloadText(notes[k]), score |-> <<notes[k].score>>]]

\* ------------------------------------------------------------ script run

\* The values of env["OPENAI_API_KEY"]: absent, present and empty, present.
EnvKeys == {None, "", "sk"}

\* The state before the first script run: no collection, empty session state.
InitWith(envKeys) ==
    /\ collections = <<>>
    /\ points = <<>>
    /\ env_openai_key \in envKeys
    /\ openai_api_key = [s \in Sessions |-> Unset]
    /\ note_audio_bytes_md5 = [s \in Sessions |-> Unset]
    /\ note_audio_bytes = [s \in Sessions |-> Unset]
    /\ note_audio_text = [s \in Sessions |-> Unset]
    /\ note_text = [s \in Sessions |-> Unset]
    /\ pc = [s \in Sessions |-> "idle"]
    /\ clicked = [s \in Sessions |-> "none"]
    /\ points_count = [s \in Sessions |-> 0]
    /\ embedding = [s \in Sessions |-> NoVector]
    /\ embed_calls = [s \in Sessions |-> 0]
    /\ query = [s \in Sessions |-> ""]
    /\ result = [s \in Sessions |-> <<>>]
    /\ error = [s \in Sessions |-> "none"]

\* The locals of add_note_to_db and list_notes_from_db are gone when the call
\* is over.
ResetCallLocals(s) ==
    /\ points_count' = [points_count EXCEPT ![s] = 0]
    /\ embedding' = [embedding EXCEPT ![s] = NoVector]
    /\ embed_calls' = [embed_calls EXCEPT ![s] = 0]
    /\ query' = [query EXCEPT ![s] = ""]
    /\ result' = [result EXCEPT ![s] = <<>>]

\* The run is over: its locals are gone, and no button is clicked any more.
ResetLocals(s) ==
    /\ clicked' = [clicked EXCEPT ![s] = "none"]
    /\ ResetCallLocals(s)

\* An exception nobody catches: Streamlit shows it and the run is over.
Raise(s, exception) ==
    /\ pc' = [pc EXCEPT ![s] = "aborted"]
    /\ error' = [error EXCEPT ![s] = exception]
    /\ ResetCallLocals(s)
    /\ UNCHANGED clicked

\* if "k" not in st.session_state: st.session_state["k"] = default
SetDefault(value, default) == IF value = Unset THEN default ELSE value

\* A script run starts: the API key gate and the session defaults, up to the
\* call of assure_db_collection_exists.  key_input is what the key field holds,
\* click the button whose click caused the run.
StartRun(s, key_input, click) ==
    LET has_key == Truthy(openai_api_key[s])
        key == IF has_key THEN openai_api_key[s]
               ELSE IF env_openai_key # None THEN env_openai_key
               ELSE key_input
        rerun == ~has_key /\ env_openai_key = None /\ Truthy(key_input)
    IN  /\ pc[s] \in {"idle", "aborted"}
        /\ openai_api_key' = [openai_api_key EXCEPT ![s] = key]
        /\ error' = [error EXCEPT ![s] = "none"]
        /\ IF rerun \/ ~Truthy(key)
             THEN \* st.rerun() or st.stop(): this run is over
                  /\ pc' = [pc EXCEPT ![s] = "idle"]
                  /\ clicked' = [clicked EXCEPT ![s] = "none"]
                  /\ UNCHANGED <<note_audio_bytes_md5, note_audio_bytes,
                                 note_audio_text, note_text>>
             ELSE /\ pc' = [pc EXCEPT ![s] = "bootstrap"]
                  /\ clicked' = [clicked EXCEPT ![s] = click]
                  /\ note_audio_bytes_md5' = [note_audio_bytes_md5 EXCEPT
                         ![s] = SetDefault(@, None)]
                  /\ note_audio_bytes' = [note_audio_bytes EXCEPT
                         ![s] = SetDefault(@, None)]
                  /\ note_text' = [note_text EXCEPT ![s] = SetDefault(@, "")]
                  /\ note_audio_text' = [note_audio_text EXCEPT
                         ![s] = SetDefault(@, "")]
        /\ UNCHANGED <<store, env_openai_key, points_count, embedding,
                       embed_calls, query, result>>

\* Mutant of AssureCheck: the collection is created without asking whether
\* it exists.
AssureCheckAlwaysCreate(s) ==
    /\ pc[s] = "bootstrap"
    /\ pc' = [pc EXCEPT ![s] = "create"]
    /\ UNCHANGED <<store, env_openai_key, session_state, locals, error>>

\* assure_db_collection_exists: qdrant_client.collection_exists(...)
AssureCheck(s) ==
    /\ pc[s] = "bootstrap"
    /\ pc' = [pc EXCEPT ![s] =
                IF CollectionExists(QDRANT_COLLECTION_NAME)
                  THEN "add_tab" ELSE "create"]
    /\ UNCHANGED <<store, env_openai_key, session_state, locals, error>>

\* Mutant of AssureCreate: the missing collection is reported, not created.
AssureCreateSkipped(s) ==
    /\ pc[s] = "create"
    /\ pc' = [pc EXCEPT ![s] = "add_tab"]
    /\ UNCHANGED <<store, env_openai_key, session_state, locals, error>>

\* assure_db_collection_exists: qdrant_client.create_collection(...), which
\* Qdrant refuses when the collection exists already.
AssureCreate(s) ==
    /\ pc[s] = "create"
    /\ IF CollectionExists(QDRANT_COLLECTION_NAME)
         THEN /\ Raise(s, "Conflict")
              /\ UNCHANGED collections
         ELSE /\ collections' =
                    [n \in DOMAIN collections \cup {QDRANT_COLLECTION_NAME} |->
                        IF n = QDRANT_COLLECTION_NAME
                          THEN [size |-> EMBEDDING_DIM, distance |-> "Cosine"]
                          ELSE collections[n]]
              /\ pc' = [pc EXCEPT ![s] = "add_tab"]
              /\ UNCHANGED <<locals, error>>
    /\ UNCHANGED <<points, env_openai_key, session_state>>

\* The add tab up to the transcribe button: the recorder returns note_audio,
\* and a recording with a new MD5 resets the note.
AddTab(s, note_audio) ==
    /\ pc[s] = "add_tab"
    /\ IF note_audio = NoAudio
         THEN /\ pc' = [pc EXCEPT ![s] = "search_tab"]
              /\ UNCHANGED <<note_audio_bytes, note_audio_bytes_md5,
                             note_audio_text, note_text>>
         ELSE LET bytes == Export(note_audio)
                  curent_md5 == Md5Hex(bytes)
                  changed == note_audio_bytes_md5[s] # curent_md5
              IN  /\ note_audio_bytes' = [note_audio_bytes EXCEPT ![s] = bytes]
                  /\ note_audio_text' = [note_audio_text EXCEPT
                         ![s] = IF changed THEN "" ELSE @]
                  /\ note_text' = [note_text EXCEPT
                         ![s] = IF changed THEN "" ELSE @]
                  /\ note_audio_bytes_md5' = [note_audio_bytes_md5 EXCEPT
                         ![s] = curent_md5]
                  /\ pc' = [pc EXCEPT ![s] =
                         IF clicked[s] = "transcribe"
                           THEN "transcribe" ELSE "edit"]
    /\ UNCHANGED <<store, env_openai_key, openai_api_key, locals, error>>

\* transcribe_audio returns the transcript.
Transcribe(s, transcript) ==
    /\ pc[s] = "transcribe"
    /\ note_audio_text' = [note_audio_text EXCEPT ![s] = transcript]
    /\ pc' = [pc EXCEPT ![s] = "edit"]
    /\ UNCHANGED <<store, env_openai_key, openai_api_key, note_audio_bytes_md5,
                   note_audio_bytes, note_text, locals, error>>

\* transcribe_audio raises: the transcription request failed.
TranscribeFail(s) ==
    /\ pc[s] = "transcribe"
    /\ Raise(s, "TranscriptionFailure")
    /\ UNCHANGED <<store, env_openai_key, session_state>>

\* The text area (shown when there is a transcript; edit is what it returns)
\* and the save button (reached when the note text is truthy).
EditNote(s, edit) ==
    LET text == IF Truthy(note_audio_text[s]) THEN edit ELSE note_text[s]
    IN  /\ pc[s] = "edit"
        /\ note_text' = [note_text EXCEPT ![s] = text]
        /\ pc' = [pc EXCEPT ![s] =
                    IF Truthy(text) /\ clicked[s] = "save"
                      THEN "add_count" ELSE "search_tab"]
        /\ UNCHANGED <<store, env_openai_key, openai_api_key,
                       note_audio_bytes_md5, note_audio_bytes, note_audio_text,
                       locals, error>>

\* add_note_to_db: points_count = qdrant_client.count(..., exact=True)
AddCount(s, cap) ==
    /\ pc[s] = "add_count"
    /\ Count < cap
    /\ points_count' = [points_count EXCEPT ![s] = Count]
    /\ pc' = [pc EXCEPT ![s] = "add_embed"]
    /\ UNCHANGED <<store, env_openai_key, session_state, clicked, embedding,
                   embed_calls, query, result, error>>

\* add_note_to_db: vector=get_embedding(text=note_text)
AddEmbed(s) ==
    /\ pc[s] = "add_embed"
    /\ embedding' = [embedding EXCEPT ![s] = EmbeddingsCreate(note_text[s])]
    /\ embed_calls' = [embed_calls EXCEPT ![s] = @ + 1]
    /\ pc' = [pc EXCEPT ![s] = "add_upsert"]
    /\ UNCHANGED <<store, env_openai_key, session_state, clicked, points_count,
                   query, result, error>>

\* Mutant of EmbedFail: the failure is swallowed and the caller goes on
\* without a vector.
EmbedFailIgnored(s) ==
    /\ pc[s] \in {"add_embed", "list_embed"}
    /\ pc' = [pc EXCEPT ![s] =
                IF pc[s] = "add_embed" THEN "add_upsert" ELSE "list_search"]
    /\ UNCHANGED <<store, env_openai_key, session_state, locals, error>>

\* get_embedding raises: the embedding request failed.
EmbedFail(s) ==
    /\ pc[s] \in {"add_embed", "list_embed"}
    /\ Raise(s, "EmbeddingFailure")
    /\ UNCHANGED <<store, env_openai_key, session_state>>

\* add_note_to_db: qdrant_client.upsert(points=[PointStruct(...)])
AddUpsert(s) ==
    /\ pc[s] = "add_upsert"
    /\ points' = Upsert(points, PointId(points_count[s]), embedding[s],
                        [text |-> note_text[s]])
    /\ pc' = [pc EXCEPT ![s] = "toast"]
    /\ UNCHANGED <<collections, env_openai_key, session_state, locals, error>>

\* add_note_to_db has returned: st.toast("Notatka zapisana")
Toast(s) ==
    /\ pc[s] = "toast"
    /\ pc' = [pc EXCEPT ![s] = "search_tab"]
    /\ UNCHANGED <<store, env_openai_key, session_state, locals, error>>

\* The search tab: the query field returns q; the search button calls
\* list_notes_from_db(q), which branches on `not query`.
SearchTab(s, q) ==
    /\ pc[s] = "search_tab"
    /\ IF clicked[s] = "search"
         THEN /\ query' = [query EXCEPT ![s] = q]
              /\ pc' = [pc EXCEPT ![s] =
                     IF ~Truthy(q) THEN "list_scroll" ELSE "list_embed"]
              /\ UNCHANGED <<clicked, points_count, embedding, embed_calls,
                             result>>
         ELSE /\ pc' = [pc EXCEPT ![s] = "idle"]
              /\ ResetLocals(s)
    /\ UNCHANGED <<store, env_openai_key, session_state, error>>

\* list_notes_from_db without a query: scroll and build the result.
ListScroll(s) ==
    /\ pc[s] = "list_scroll"
    /\ result' = [result EXCEPT ![s] = ListAllResult(Scroll(LIST_LIMIT))]
    /\ pc' = [pc EXCEPT ![s] = "render"]
    /\ UNCHANGED <<store, env_openai_key, session_state, clicked, points_count,
                   embedding, embed_calls, query, error>>

\* list_notes_from_db with a query: query_vector=get_embedding(text=query)
ListEmbed(s) ==
    /\ pc[s] = "list_embed"
    /\ embedding' = [embedding EXCEPT ![s] = EmbeddingsCreate(query[s])]
    /\ embed_calls' = [embed_calls EXCEPT ![s] = @ + 1]
    /\ pc' = [pc EXCEPT ![s] = "list_search"]
    /\ UNCHANGED <<store, env_openai_key, session_state, clicked, points_count,
                   query, result, error>>

\* list_notes_from_db with a query: search and build the result.
ListSearch(s) ==
    /\ pc[s] = "list_search"
    /\ result' = [result EXCEPT
                     ![s] = SearchResult(Search(embedding[s], LIST_LIMIT))]
    /\ pc' = [pc EXCEPT ![s] = "render"]
    /\ UNCHANGED <<store, env_openai_key, session_state, clicked, points_count,
                   embedding, embed_calls, query, error>>

\* The loop that renders the result; the run is over.
Render(s) ==
    /\ pc[s] = "render"
    /\ pc' = [pc EXCEPT ![s] = "idle"]
    /\ ResetLocals(s)
    /\ UNCHANGED <<store, env_openai_key, session_state, error>>

\* Where a run stands right before a request to Qdrant.
StoreOps == {"bootstrap", "create", "add_count", "add_upsert", "list_scroll",
             "list_search"}

\* Of these, the repository operations: count, upsert, scroll, search.
RepositoryOps == {"add_count", "add_upsert", "list_scroll", "list_search"}

\* A request to Qdrant fails (unreachable, bad credentials): the client
\* raises and nothing is written.
StoreFail(s) ==
    /\ pc[s] \in StoreOps
    /\ Raise(s, "StoreUnavailable")
    /\ UNCHANGED <<store, env_openai_key, session_state>>

\* One step of session s, its inputs drawn from the given sets.
Step(s, keys, audios, transcripts, edits, queries, cap) ==
    \/ \E k \in keys, c \in Clicks : StartRun(s, k, c)
    \/ AssureCheck(s)
    \/ AssureCreate(s)
    \/ \E a \in audios : AddTab(s, a)
    \/ \E t \in transcripts : Transcribe(s, t)
    \/ TranscribeFail(s)
    \/ \E e \in edits : EditNote(s, e)
    \/ AddCount(s, cap)
    \/ AddEmbed(s)
    \/ EmbedFail(s)
    \/ AddUpsert(s)
    \/ Toast(s)
    \/ \E q \in queries : SearchTab(s, q)
    \/ ListScroll(s)
    \/ ListEmbed(s)
    \/ ListSearch(s)
    \/ Render(s)
    \/ StoreFail(s)

\* ---------------------------------------------------------- specifications

\* One session, every input.
Init == InitWith(EnvKeys)
Next == Step(1, {"", "sk"}, {NoAudio} \cup Audios, Texts, Texts, {"", "a"},
             MaxNotes)
Spec == Init /\ [][Next]_vars

\* One session filling the collection past the listing limit: the key comes
\* from the environment, there is one recording, the transcripts are "a" and
\* "b" and the user saves them as transcribed.
InitBulk == InitWith({"sk"})
NextBulk == Step(1, {""}, {"rec1"}, {"a", "b"}, {note_audio_text[1]},
                 {"", "a"}, MaxBulkNotes)
SpecBulk == InitBulk /\ [][NextBulk]_vars

\* Two sessions against the same collection.
InitRace == InitWith({"sk"})
NextRace == \E s \in Sessions :
                Step(s, {""}, {"rec1"}, {"a", "b"}, {note_audio_text[s]},
                     {"", "a"}, MaxRaceNotes)
SpecRace == InitRace /\ [][NextRace]_vars

\* ------------------------------------------------------------------ claims

Max(S) == CHOOSE x \in S : \A y \in S : y <= x

\* The texts of a result list.
ResultTexts(r) == {r[k].text : k \in 1..Len(r)}

\* C1: once add_note_to_db(text) has completed, a following
\* list_notes_from_db() without a query returns a list with an entry whose
\* text is the added text.  With a single writer the note added last is the
\* point with the highest id, so: a list without a query that has just
\* returned holds the text of the point with the highest id.
AddThenListIncludesText ==
    \A s \in Sessions :
        (pc[s] = "render" /\ ~Truthy(query[s]) /\ DOMAIN points # {})
            => points[Max(DOMAIN points)].payload.text \in ResultTexts(result[s])

\* C2: when a writer upserts after another writer that read the same count
\* has upserted, the upsert goes to the same id count+1, replaces the other
\* writer's text by its own, adds no point and raises no error.
RacingWritersLoseANote ==
    [][\A s, t \in Sessions :
          (/\ s # t
           /\ pc[s] = "add_upsert" /\ pc'[s] = "toast"
           /\ pc[t] = "toast"
           /\ points_count[t] = points_count[s])
          => LET id == points_count[s] + 1
             IN  /\ id \in DOMAIN points
                 /\ points[id].payload.text = note_text[t]
                 /\ DOMAIN points' = DOMAIN points
                 /\ points'[id].payload.text = note_text[s]
                 /\ \A i \in DOMAIN points \ {id} : points'[i] = points[i]
                 /\ error'[s] = "none" /\ error'[t] = "none"]_vars

\* C2 witness: both writers have added after reading the same count, their
\* texts differ, and the collection holds one more point than they counted,
\* with the text of one of them and not the other's.
RaceLostNote ==
    /\ pc[1] = "toast" /\ pc[2] = "toast"
    /\ points_count[1] = points_count[2]
    /\ note_text[1] # note_text[2]
    /\ Count = points_count[1] + 1
    /\ points[Count].payload.text = note_text[2]
    /\ \A i \in DOMAIN points : points[i].payload.text # note_text[1]
    /\ error[1] = "none" /\ error[2] = "none"

\* C3: with a single writer every add stores its note under an id that is not
\* in the collection yet, so the number of points grows by exactly one, and
\* no step changes the text stored under an id that exists.
NotesNeverChangedInPlace ==
    /\ [][\A s \in Sessions :
             (pc[s] = "add_upsert" /\ pc'[s] = "toast")
             => /\ Cardinality(DOMAIN points') = Cardinality(DOMAIN points) + 1
                /\ Cardinality(DOMAIN points' \ DOMAIN points) = 1]_vars
    /\ [][\A i \in DOMAIN points :
             /\ i \in DOMAIN points'
             /\ points'[i].payload.text = points[i].payload.text]_vars

\* C3 witness: an add has just completed on top of a note with another text.
AddedNextToOlderNote ==
    /\ pc[1] = "toast"
    /\ Count >= 2
    /\ points[Count].payload.text = note_text[1]
    /\ points[1].payload.text # points[Count].payload.text

\* C4: no point with empty or blank text is ever stored.
NoBlankNoteStored ==
    \A i \in DOMAIN points : ~Blank(points[i].payload.text)

\* C5: when the transcription call has failed, the run is not aborted and the
\* transcript is the empty one.
TranscriptionFailureRecovered ==
    \A s \in Sessions :
        error[s] = "TranscriptionFailure"
            => pc[s] # "aborted" /\ note_audio_text[s] = ""

\* C6: a failed embedding call in add_note_to_db ends the run with the error
\* and leaves the points as they were; an upsert is only reached with the
\* embedding of the note's text, and every stored point carries the embedding
\* of its text, of EMBEDDING_DIM components.
EmbeddingFailureStoresNothing ==
    /\ [][\A s \in Sessions :
             (pc[s] = "add_embed" /\ pc'[s] # "add_upsert")
             => /\ points' = points
                /\ pc'[s] \in {"add_embed", "aborted"}
                /\ pc'[s] = "aborted" => error'[s] = "EmbeddingFailure"]_vars
    /\ [](\A s \in Sessions :
             pc[s] = "add_upsert"
                 => embedding[s] = EmbeddingsCreate(note_text[s]))
    /\ [](\A i \in DOMAIN points :
             /\ points[i].vector = EmbeddingsCreate(points[i].payload.text)
             /\ points[i].vector.size = EMBEDDING_DIM)

\* C6 witness: the embedding call of an add has failed with notes stored.
AddEmbeddingFailed ==
    /\ error[1] = "EmbeddingFailure"
    /\ clicked[1] = "save"
    /\ pc[1] = "aborted"
    /\ Count >= 1

\* C7: a run stands at a repository operation only with the collection in
\* place and no error raised; from the bootstrap a run goes on to the page
\* only with the collection in place, and otherwise is aborted; and a run
\* that is over or aborted reaches nothing but the start of the next run.
BootstrapBeforeRepository ==
    /\ [](\A s \in Sessions :
             pc[s] \in RepositoryOps
                 => CollectionExists(QDRANT_COLLECTION_NAME) /\ error[s] = "none")
    /\ [][\A s \in Sessions :
             pc[s] \in {"bootstrap", "create"}
             => \/ pc'[s] \in {"bootstrap", "create"}
                \/ pc'[s] = "aborted" /\ error'[s] # "none"
                \/ /\ pc'[s] = "add_tab"
                   /\ QDRANT_COLLECTION_NAME \in DOMAIN collections']_vars
    /\ [][\A s \in Sessions :
             pc[s] \in {"idle", "aborted"}
             => pc'[s] \in {"idle", "aborted", "bootstrap"}]_vars

\* C7 witness: a run is about to search the collection that holds a note.
SearchAfterBootstrap ==
    /\ pc[1] = "list_search"
    /\ CollectionExists(QDRANT_COLLECTION_NAME)
    /\ Count >= 1

\* C8: calls of assure_db_collection_exists one after another raise nothing
\* but a failure to reach the store, issue create_collection only while the
\* collection is absent (so at most once), never touch the points, and leave
\* no collection but "notes", which stays as created.
AssureIdempotent ==
    /\ [][\A s \in Sessions :
             pc[s] \in {"bootstrap", "create"}
             => /\ points' = points
                /\ error'[s] \in {"none", "StoreUnavailable"}
                /\ collections' # collections
                     => ~CollectionExists(QDRANT_COLLECTION_NAME)]_vars
    /\ [](\A s \in Sessions :
             pc[s] = "create" => ~CollectionExists(QDRANT_COLLECTION_NAME))
    /\ [][CollectionExists(QDRANT_COLLECTION_NAME)
             => collections' = collections]_vars
    /\ [](DOMAIN collections \subseteq {QDRANT_COLLECTION_NAME})

\* C8 witness: a later call has found the collection, which holds notes.
AssuredAgain ==
    /\ pc[1] = "add_tab"
    /\ DOMAIN collections = {QDRANT_COLLECTION_NAME}
    /\ Count >= 2

\* C10: a list without a query returns after no embedding call with every
\* score None; a list with a query returns after one embedding call with
\* every score a cosine value; both return at most LIST_LIMIT entries, as
\* many as there are points up to that limit, and change no point.
ListDispatch ==
    /\ [](\A s \in Sessions :
             pc[s] = "render"
             => /\ Len(result[s]) <= LIST_LIMIT
                /\ Len(result[s]) =
                       (IF Count < LIST_LIMIT THEN Count ELSE LIST_LIMIT)
                /\ IF ~Truthy(query[s])
                     THEN /\ embed_calls[s] = 0
                          /\ \A k \in 1..Len(result[s]) :
                                 result[s][k].score = <<>>
                     ELSE /\ embed_calls[s] = 1
                          /\ \A k \in 1..Len(result[s]) :
                                 /\ result[s][k].score # <<>>
                                 /\ result[s][k].score[1] \in -1..1)
    /\ [][\A s \in Sessions :
             pc[s] \in {"list_scroll", "list_embed", "list_search"}
                 => points' = points]_vars

\* C10 witness: a search has returned LIST_LIMIT scored entries out of more.
SearchCutAtLimit ==
    /\ pc[1] = "render"
    /\ Truthy(query[1])
    /\ Count > LIST_LIMIT
    /\ Len(result[1]) = LIST_LIMIT
    /\ result[1][1].score = <<1>>

====
